---------------------------- MODULE Spec2Model ----------------------------
(***************************************************************************)
(* envira: the provider application engine.                                *)
(*                                                                         *)
(*   configurator.py   main, Configurator.load, _prepare_providers         *)
(*   providers/apt.py  AptProvider.apply, _download_key, _apt_add_repo,    *)
(*                     _apt_update, _apt_upgrade, _apt_install             *)
(*   providers/env.py  EnvProvider.apply, _path_relative, _apply_copy,     *)
(*                     _apply_dirtree, _apply_exec, the pattern validators *)
(*                                                                         *)
(* Text (file contents, URLs, source-list rows) is a sequence of tokens;   *)
(* a token stands for a run of characters that the program never splits.   *)
(* Paths are sequences of components.                                      *)
(***************************************************************************)
EXTENDS Naturals, Sequences, FiniteSets, TLC

VARIABLES
    pc,         \* where the run is: a record [at |-> ..., i |-> ...]
    conf,       \* conf_obj, the parsed configuration document
    force,      \* args.force
    srcfiles,   \* the files of /etc/apt/sources.list.d, by name
    keyrings,   \* the files of /usr/share/keyrings, by key host
    fs,         \* the rest of the filesystem: path -> node
    res,        \* the ProviderOperationResult of the last operation
    call,       \* the last operation: its name, arguments and the state before it
    trace,      \* the operations performed and diagnostics printed, in order
    exitCode,   \* the exit status of the process, <<>> while it runs
    runs,       \* the runs of the program that ended before this one: what each left
    exec_info   \* EXEC_INFO, the ExecInfo computed when the program starts

vars ==
    <<pc, conf, force, srcfiles, keyrings, fs, res, call, trace, exitCode, runs,
      exec_info>>

----------------------------------------------------------------------------
(* Bounds of the model *)

\* lines of a source-list file that exists before the run
MaxLines == 2
\* repository additions in a row to one source-list file
MaxAdds == 2

----------------------------------------------------------------------------
(* Text *)

NL == "\n"

\* Python: s in t, for str
IsSubstr(s, t) ==
    \E i \in 0..(Len(t) - Len(s)) : SubSeq(t, i + 1, i + Len(s)) = s

\* index of the first NL of d, 0 when there is none
FirstNL(d) ==
    IF \E i \in 1..Len(d) : d[i] = NL
    THEN CHOOSE i \in 1..Len(d) : d[i] = NL /\ \A j \in 1..(i - 1) : d[j] # NL
    ELSE 0

RECURSIVE splitlines(_)
\* Python: str.splitlines()
splitlines(d) ==
    IF d = <<>> THEN <<>>
    ELSE LET i == FirstNL(d)
         IN  IF i = 0 THEN <<d>>
             ELSE <<SubSeq(d, 1, i - 1)>> \o splitlines(SubSeq(d, i + 1, Len(d)))

RECURSIVE JoinLines(_)
\* every line followed by NL: what writing line + "\n" for each line leaves
JoinLines(ls) ==
    IF ls = <<>> THEN <<>> ELSE Head(ls) \o <<NL>> \o JoinLines(Tail(ls))

RECURSIVE SelectLines(_, _)
\* the lines of ls that do not contain s, in order
SelectLines(ls, s) ==
    IF ls = <<>> THEN <<>>
    ELSE (IF IsSubstr(s, Head(ls)) THEN <<>> ELSE <<Head(ls)>>)
         \o SelectLines(Tail(ls), s)

----------------------------------------------------------------------------
(* ProviderOperationResult: err and data are text, "" and <<>> for None *)

NoCode == <<>>

Result(err, code, data) == [err |-> err, exit_code |-> code, data |-> data]

OkResult == Result("", NoCode, <<>>)

ErrResult(err) == Result(err, NoCode, <<>>)

----------------------------------------------------------------------------
(* AptProvider._apt_add_repo *)

\* LSB_INFO.codename
Codename == <<"jammy">>

NoFile == [exists |-> FALSE, data |-> <<>>]

File(d) == [exists |-> TRUE, data |-> d]

repo_row(repo_url, type_, branch, gpg_key_path) ==
    type_ \o <<" ">>
    \o (IF gpg_key_path # <<>> THEN <<"[signed-by=">> \o gpg_key_path \o <<"] ">> ELSE <<>>)
    \o repo_url \o <<" ">> \o Codename \o <<" ">> \o branch \o <<NL>>

\* the "exact line already there" test of line 178
RowPresent(row, file_data) == IsSubstr(row, file_data)

\* the "same repository" test of lines 181 and 193
UrlPresent(repo_url, text) == IsSubstr(repo_url, text)

\* what lines 190-194 leave in the file
RewriteWithout(file_data, repo_url) ==
    JoinLines(SelectLines(splitlines(file_data), repo_url))

\* the file and the result that _apt_add_repo leaves
_apt_add_repo(file, repo_url, type_, branch, gpg_key_path, force_) ==
    LET row == repo_row(repo_url, type_, branch, gpg_key_path)
    IN  IF file.exists
        THEN IF RowPresent(row, file.data)
             THEN [file |-> file, res |-> OkResult]
             ELSE IF UrlPresent(repo_url, file.data)
                  THEN IF ~force_
                       THEN [file |-> file, res |-> ErrResult("duplicated")]
                       ELSE [file |-> File(RewriteWithout(file.data, repo_url) \o row),
                             res |-> OkResult]
                  ELSE [file |-> File(file.data \o row), res |-> OkResult]
        ELSE [file |-> File(row), res |-> OkResult]

----------------------------------------------------------------------------
(* AptProvider._download_key, _apt_update, _apt_upgrade, _apt_install: what
   they do with the outcome of the commands they run *)

\* a URL as urlparse splits it
Url(scheme, netloc, path) == [scheme |-> scheme, netloc |-> netloc, path |-> path]
NoUrl == Url("", "", "")

\* utils.is_url
is_url(url) == url.scheme # "" /\ url.netloc # ""

\* line 115: the keyring file of a key host
gpg_key_path_of(domain) == <<"/usr/share/keyrings/envira-", domain, "-keyring.gpg">>

\* the outcome of a child process: its exit status and what it wrote
Proc(returncode, out, err) == [returncode |-> returncode, out |-> out, err |-> err]

ExitCodes == {0, 1}
ProcOutcomes == { Proc(c, o, e) : c \in ExitCodes, o \in {"", "out"}, e \in {"", "err"} }
\* the outcomes of a command whose standard output the program does not read
CmdOutcomes == { p \in ProcOutcomes : p.out = "" }

\* what urlopen(url).read() does: the key bytes, a URLError (caught), or a
\* timeout while reading (socket.timeout, which is no URLError)
FetchOutcomes == {"bytes", "URLError", "timeout"}

\* _download_key: the keyring files, the result and the exception it leaves.
\* The keyring of the host is removed first (lines 117-118); gpg writes it anew
\* when it exits with 0.
_download_key(rings, url, fetch, gpg) ==
    LET domain  == url.netloc
        removed == rings \ { r \in rings : r.host = domain }
    IN  IF fetch = "URLError"
        THEN [rings |-> removed, res |-> Result("urlerror", NoCode, <<>>), raised |-> ""]
        ELSE IF fetch = "timeout"
        THEN [rings |-> removed, res |-> OkResult, raised |-> "timeout"]
        ELSE [rings |-> IF gpg.returncode = 0
                        THEN removed \cup {[host |-> domain, data |-> "new"]}
                        ELSE removed,
              res |-> Result(IF gpg.returncode # 0 THEN gpg.err ELSE "",
                             <<gpg.returncode>>, gpg_key_path_of(domain)),
              raised |-> ""]

\* _apt_update: stderr is piped, err is what the command wrote to it
_apt_update(proc) == Result(proc.err, <<proc.returncode>>, <<>>)

\* _apt_upgrade: stderr goes to stdout (line 226), so communicate() gives no err
_apt_upgrade(proc) == Result("", <<proc.returncode>>, <<>>)

\* _apt_install: the install command, then the version query when it exited with 0
\* (ran: whether the query command was run)
_apt_install(inst, policy) ==
    IF inst.returncode # 0
    THEN [res |-> Result(inst.err, <<inst.returncode>>, <<>>), ran |-> FALSE]
    ELSE IF policy.returncode # 0
    THEN [res |-> Result(policy.err, <<policy.returncode>>, <<>>), ran |-> TRUE]
    ELSE [res |-> Result(policy.err, <<policy.returncode>>,
                         IF policy.out # "" THEN <<"version">> ELSE <<>>),
          ran |-> TRUE]

----------------------------------------------------------------------------
(* Paths (pathlib) and the filesystem they name *)

\* a pathlib.Path: absolute or not, and its components (".." is kept, as pathlib keeps it)
Path(abs, parts) == [abs |-> abs, parts |-> parts]

\* Environment.folder_path, the folder that holds the configuration
FolderPath == Path(TRUE, <<"env">>)

\* EXEC_INFO.exc_path, the working directory of the process
Cwd == Path(TRUE, <<"home">>)

\* pathlib: a / b
JoinPath(a, b) == IF b.abs THEN b ELSE Path(a.abs, a.parts \o b.parts)

\* pathlib: Path.absolute()
absolute(p) == IF p.abs THEN p ELSE JoinPath(Cwd, p)

\* pathlib: Path.parents, the proper lexical prefixes
parents(p) == { Path(p.abs, SubSeq(p.parts, 1, k)) : k \in 0..(Len(p.parts) - 1) }

\* pathlib: Path.name
BaseName(p) == IF p.parts = <<>> THEN <<>> ELSE <<p.parts[Len(p.parts)]>>

\* the directories and the entries a directory may hold
\* (FsPaths below)
TopDirs == {"env", "home"}
EntryNames == {"a", "l", "s", "d", "k", "m"}

\* the locations of the filesystem: the root, its directories, their entries
TreeNames == {"k", "m"}

\* the locations of the filesystem: the root, its directories, their entries,
\* and the directories a tree may add below them
FsPaths ==
    {<<>>} \cup { <<t>> : t \in TopDirs }
           \cup { <<t, e>> : t \in TopDirs, e \in EntryNames }
           \cup { <<t, e, n>> : t \in TopDirs, e \in TreeNames, n \in TreeNames }

\* the permission bits of a node are a number: 0o755 is 7 * 64 + 5 * 8 + 5
Octal(a, b, c) == a * 64 + b * 8 + c

NoNode == [kind |-> "none", data |-> "", target |-> <<>>, mode |-> 0]
DirNode == [kind |-> "dir", data |-> "", target |-> <<>>, mode |-> Octal(7, 5, 5)]
FileNode(d) == [kind |-> "file", data |-> d, target |-> <<>>, mode |-> Octal(6, 4, 4)]
LinkNode(t) == [kind |-> "link", data |-> "", target |-> t, mode |-> Octal(7, 7, 7)]
\* a directory with the given permission bits
Dir(mode) == [DirNode EXCEPT !.mode = mode]

Node(f, at) == IF at \in DOMAIN f THEN f[at] ELSE NoNode

Parent(at) == IF at = <<>> THEN <<>> ELSE SubSeq(at, 1, Len(at) - 1)

\* the longest chain of symbolic links the kernel follows in the model
MaxLinkDepth == 3

RECURSIVE Lookup(_, _, _, _, _)
\* Path resolution as the kernel does it: from directory `cur`, component by
\* component; ".." is the parent of the directory reached, a symbolic link is
\* replaced by its (absolute) target, the last one only when `follow`.
\* [ok, at]: the location reached; ok is FALSE when a component before the last
\* is missing or no directory, or the links nest deeper than MaxLinkDepth.
Lookup(f, cur, todo, follow, depth) ==
    IF todo = <<>> THEN [ok |-> TRUE, at |-> cur]
    ELSE IF Node(f, cur).kind # "dir" THEN [ok |-> FALSE, at |-> cur]
    ELSE IF Head(todo) = ".." THEN Lookup(f, Parent(cur), Tail(todo), follow, depth)
    ELSE LET nxt == cur \o <<Head(todo)>>
         IN  IF Node(f, nxt).kind = "link" /\ (Tail(todo) # <<>> \/ follow)
             THEN IF depth = 0 THEN [ok |-> FALSE, at |-> nxt]
                  ELSE Lookup(f, <<>>, Node(f, nxt).target \o Tail(todo), follow, depth - 1)
             ELSE Lookup(f, nxt, Tail(todo), follow, depth)

Stat(f, p) == Lookup(f, <<>>, absolute(p).parts, TRUE, MaxLinkDepth)
LStat(f, p) == Lookup(f, <<>>, absolute(p).parts, FALSE, MaxLinkDepth)

\* pathlib: Path.exists()
exists(f, p) == Stat(f, p).ok /\ Node(f, Stat(f, p).at).kind # "none"

\* os.path.lexists
lexists(f, p) == LStat(f, p).ok /\ Node(f, LStat(f, p).at).kind # "none"

\* pathlib: Path.is_symlink()
is_symlink(f, p) == LStat(f, p).ok /\ Node(f, LStat(f, p).at).kind = "link"

\* os.path.isdir
isdir(f, p) == Stat(f, p).ok /\ Node(f, Stat(f, p).at).kind = "dir"

\* a path no source equals: what resolve() of a path with a missing directory gives
Unresolved == Path(TRUE, <<"?">>)

\* pathlib: Path.resolve(), absolute with ".." and symbolic links eliminated
resolve(f, p) == IF Stat(f, p).ok THEN Path(TRUE, Stat(f, p).at) ELSE Unresolved

\* what a read of the file at p gives, "" when there is no file to read
Content(f, p) ==
    IF Stat(f, p).ok /\ Node(f, Stat(f, p).at).kind = "file"
    THEN Node(f, Stat(f, p).at).data ELSE ""

----------------------------------------------------------------------------
(* EnvProvider._path_relative, _apply_copy *)

\* an EnvCopyPattern
CopyPattern(source, dest, as_link) == [source |-> source, dest |-> dest, as_link |-> as_link]

_path_relative(folder_path, path) ==
    LET p == IF ~path.abs THEN absolute(path) ELSE path
    IN  folder_path \in parents(p)

\* the outcome of a filesystem operation: the filesystem, the result, and the
\* exception that left the operation uncaught ("" when none did)
Outcome(f, r, raised) == [fs |-> f, res |-> r, raised |-> raised]

\* shutil.copy(source, dest) inside the try of lines 153-158
shutil_copy(f, source, dest) ==
    LET dst == IF isdir(f, dest) THEN JoinPath(dest, Path(FALSE, BaseName(source))) ELSE dest
        s   == Stat(f, source)
        t   == Stat(f, dst)
    IN  IF s.ok /\ t.ok /\ s.at = t.at /\ Node(f, s.at).kind # "none"
        THEN Outcome(f, OkResult, "")                       \* SameFileError: pass
        ELSE IF ~s.ok \/ Node(f, s.at).kind # "file"
        THEN Outcome(f, ErrResult("oserror"), "")           \* no file to read
        ELSE IF ~t.ok \/ t.at \notin DOMAIN f \/ Node(f, t.at).kind = "dir"
        THEN Outcome(f, ErrResult("oserror"), "")           \* nothing to write to
        ELSE Outcome([f EXCEPT ![t.at] = FileNode(Node(f, s.at).data)], OkResult, "")

\* os.symlink(source, dest) of line 176, outside any try
os_symlink(f, source, dest) ==
    LET t == LStat(f, dest)
    IN  IF ~t.ok \/ t.at \notin DOMAIN f \/ Node(f, Parent(t.at)).kind # "dir"
        THEN Outcome(f, OkResult, "FileNotFoundError")
        ELSE IF Node(f, t.at).kind # "none"
        THEN Outcome(f, OkResult, "FileExistsError")
        ELSE Outcome([f EXCEPT ![t.at] = LinkNode(source.parts)], OkResult, "")

\* line 148 if force were read the wrong way round
CopyRefused_inverted(f, dest, force_) == exists(f, dest) /\ force_

\* line 148: a copy is refused
CopyRefused(f, dest, force_) == exists(f, dest) /\ ~force_

\* lines 161-168: a link is refused
LinkRefused(f, source, dest, force_) ==
    /\ exists(f, dest)
    /\ \/ ~is_symlink(f, dest)
       \/ (is_symlink(f, dest) /\ resolve(f, dest) # source)
    /\ ~force_

\* line 173: the link is there already
LinkSatisfied(f, source, dest) == is_symlink(f, dest) /\ resolve(f, dest) = source

_apply_copy(f, folder_path, section, force_) ==
    LET source == JoinPath(folder_path, section.source)
        dest   == absolute(section.dest)
    IN  IF ~_path_relative(folder_path, source)
        THEN Outcome(f, ErrResult("outside"), "")
        ELSE IF ~exists(f, source)
        THEN Outcome(f, ErrResult("not_exist"), "")
        ELSE IF ~section.as_link
        THEN IF CopyRefused(f, dest, force_)
             THEN Outcome(f, ErrResult("already_exists"), "")
             ELSE shutil_copy(f, source, dest)
        ELSE IF LinkRefused(f, source, dest, force_)
             THEN Outcome(f, ErrResult("already_exists"), "")
             ELSE IF LinkSatisfied(f, source, dest)
             THEN Outcome(f, OkResult, "")
             ELSE os_symlink(f, source, dest)

----------------------------------------------------------------------------
(* EnvProvider._apply_dirtree, _apply_exec *)

\* an EnvDirTreeSubtreePattern
Subtree(name, mode, nested) == [name |-> name, mode |-> mode, nested |-> nested]

\* the value of a character as a digit of base 8
DigitOf(ch) ==
    CASE ch = "0" -> 0 [] ch = "1" -> 1 [] ch = "2" -> 2 [] ch = "3" -> 3
      [] ch = "4" -> 4 [] ch = "5" -> 5 [] ch = "6" -> 6 [] ch = "7" -> 7
      [] OTHER -> 8

RECURSIVE int_base8(_)
\* int(v, base=8): the number, or the ValueError of a character that is not
\* a digit of base 8 (v has no sign, blank or underscore here)
int_base8(v) ==
    IF v = <<>> THEN [raised |-> TRUE, n |-> 0]
    ELSE LET last == DigitOf(v[Len(v)])
             front == IF Len(v) = 1 THEN [raised |-> FALSE, n |-> 0]
                      ELSE int_base8(SubSeq(v, 1, Len(v) - 1))
         IN  IF last = 8 \/ front.raised THEN [raised |-> TRUE, n |-> 0]
             ELSE [raised |-> FALSE, n |-> front.n * 8 + last]

\* a & ~b on one digit of base 8
AndNot8(a, b) ==
    (IF (a \div 4) % 2 = 1 /\ (b \div 4) % 2 = 0 THEN 4 ELSE 0)
    + (IF (a \div 2) % 2 = 1 /\ (b \div 2) % 2 = 0 THEN 2 ELSE 0)
    + (IF a % 2 = 1 /\ b % 2 = 0 THEN 1 ELSE 0)

RECURSIVE Masked(_, _)
\* mode & ~umask, the permission bits mkdir(2) gives the new directory
Masked(mode, umask) ==
    IF mode = 0 THEN 0
    ELSE AndNot8(mode % 8, umask % 8) + 8 * Masked(mode \div 8, umask \div 8)

\* the file mode creation masks of the process: none, and the usual 0o022
Umasks == {0, Octal(0, 2, 2)}

\* Path.mkdir(mode): the new directory, or the OSError that _apply_dirtree catches
mkdir(f, p, mode, umask) ==
    LET t == LStat(f, p)
    IN  IF ~t.ok \/ t.at \notin DOMAIN f \/ Node(f, Parent(t.at)).kind # "dir"
        THEN [fs |-> f, err |-> "oserror"]
        ELSE IF Node(f, t.at).kind # "none"
        THEN [fs |-> f, err |-> "oserror"]
        ELSE [fs |-> [f EXCEPT ![t.at] = Dir(Masked(mode, umask))], err |-> ""]

RECURSIVE _walk(_, _, _, _)
\* lines 181-188, the first exception ends the walk
_walk(f, trees, cur_path, umask) ==
    IF trees = <<>> THEN [fs |-> f, err |-> ""]
    ELSE LET tree == Head(trees)
             new_cur_path == JoinPath(cur_path, Path(FALSE, <<tree.name>>))
             mode == int_base8(tree.mode)
             made == IF exists(f, new_cur_path) THEN [fs |-> f, err |-> ""]
                     ELSE IF mode.raised THEN [fs |-> f, err |-> "valueerror"]
                     ELSE mkdir(f, new_cur_path, mode.n, umask)
             below == IF made.err = "" /\ tree.nested # <<>>
                      THEN _walk(made.fs, tree.nested, new_cur_path, umask)
                      ELSE made
         IN  IF below.err # "" THEN below
             ELSE _walk(below.fs, Tail(trees), cur_path, umask)

_apply_dirtree(f, section, umask) ==
    LET w == _walk(f, section.tree, absolute(section.root), umask)
    IN  Outcome(w.fs, IF w.err # "" THEN ErrResult(w.err) ELSE OkResult, "")

\* an EnvExecPattern; cmd is text (<<>> for None), script is <<>> or <<path>>
ExecPattern(cmd, script, shell, as_root) ==
    [cmd |-> cmd, script |-> script, shell |-> shell, as_root |-> as_root]

\* SYS_INFO.default_shell, and the shells shutil.which finds
DefaultShell == "sh"
KnownShells == {"sh", "bash"}

\* the uid of the user who calls the program, and the uid of root
InvokingUid == 1000
RootUid == 0

\* _get_exec_info: the uid and euid of the ExecInfo. sudo_uid is <<>> when
\* SUDO_USER is unset, else <<the uid of that user>>; ruid is os.getuid()
_get_exec_info(sudo_uid, ruid, euid) ==
    [uid |-> IF sudo_uid # <<>> THEN sudo_uid[1] ELSE ruid, euid |-> euid]

\* _apply_exec: the result, and the process it started, if any. With user=
\* the process has that uid; without, it has the ids of the program itself
_apply_exec(folder_path, section, proc, info) ==
    LET cmd == IF section.script # <<>> THEN absolute(section.script[1]).parts
               ELSE section.cmd
        uid == IF ~section.as_root THEN info.uid ELSE info.euid
        err == IF proc.returncode # 0 /\ proc.err = "" THEN proc.out ELSE proc.err
    IN  IF section.script # <<>> /\ ~_path_relative(folder_path, section.script[1])
        THEN [res |-> ErrResult("outside"), started |-> <<>>]
        ELSE IF section.shell # DefaultShell /\ section.shell \notin KnownShells
        THEN [res |-> ErrResult("unknown_shell"), started |-> <<>>]
        ELSE [res |-> Result(err, <<proc.returncode>>, <<>>),
              started |-> <<[cmd |-> cmd, uid |-> uid]>>]

----------------------------------------------------------------------------
(* Schema validation (pydantic): BaseProvider.validate *)

\* the fields of EnvExecPattern in the order the class declares them, which is
\* the order pydantic validates them in
ExecFields == <<"cmd", "script", "shell", "as_root">>

\* `values` of a validator of `field`: the fields validated before it
values_at(entry, field) ==
    LET k == CHOOSE j \in 1..Len(ExecFields) : ExecFields[j] = field
    IN  [n \in { ExecFields[j] : j \in 1..(k - 1) } |-> entry[n]]

\* dict.get: None (<<>>) for a key that is not there
get(values, key) == IF key \in DOMAIN values THEN values[key] ELSE <<>>

\* Python truth of an optional text or path
Truthy(v) == v # <<>>

\* EnvExecPattern.check_cmd_or_script: TRUE when it raises ValueError
check_cmd_or_script(cmd, values) ==
    \/ (~Truthy(get(values, "script")) /\ ~Truthy(cmd))
    \/ (Truthy(get(values, "script")) /\ Truthy(cmd))

\* EnvExecPattern.parse_obj succeeds
ValidExec(entry) == ~check_cmd_or_script(entry.cmd, values_at(entry, "cmd"))

\* constr(min_length=1, max_length=4) of EnvDirTreeSubtreePattern.mode
MinModeLength == 1
MaxModeLength == 4

\* a text contains a character
HasChar(v, c) == \E i \in 1..Len(v) : v[i] = c

\* str.rjust(width, fillchar): v if it is as long as width, else padded on the left
rjust(v, width, fillchar) ==
    IF Len(v) >= width THEN v
    ELSE [i \in 1..width |->
            IF i <= width - Len(v) THEN fillchar ELSE v[i - (width - Len(v))]]

\* EnvDirTreeSubtreePattern.validate_privileges, after the constr test of the
\* field: raised, or the mode the pattern keeps
validate_privileges(v) ==
    IF Len(v) < MinModeLength \/ Len(v) > MaxModeLength
    THEN [raised |-> TRUE, v |-> v]
    ELSE IF HasChar(v, "8") \/ HasChar(v, "9")
    THEN [raised |-> TRUE, v |-> v]
    ELSE IF v[1] # "0" /\ Len(v) = 4
    THEN [raised |-> TRUE, v |-> v]
    ELSE LET padded == IF Len(v) < 3 THEN rjust(v, 3 - Len(v), "0") ELSE v
         IN  [raised |-> FALSE,
              v |-> IF Len(padded) = 4 THEN Tail(padded) ELSE padded]

RECURSIVE ValidTrees(_)
\* every EnvDirTreeSubtreePattern of the list parses: no mode raises
ValidTrees(trees) ==
    \A i \in 1..Len(trees) :
        /\ ~validate_privileges(trees[i].mode).raised
        /\ ValidTrees(trees[i].nested)

RECURSIVE ParsedTrees(_)
\* the patterns parse_obj builds: each mode is what validate_privileges returns
ParsedTrees(trees) ==
    [i \in 1..Len(trees) |->
        Subtree(trees[i].name, validate_privileges(trees[i].mode).v,
                ParsedTrees(trees[i].nested))]

\* EnvPattern.parse_obj succeeds
ValidEnv(section) ==
    /\ \A i \in 1..Len(section.exec_) : ValidExec(section.exec_[i])
    /\ \A i \in 1..Len(section.dirtree) : ValidTrees(section.dirtree[i].tree)

\* AptRepoPattern.parse_obj succeeds: repo_url is required
ValidRepo(repo) == repo.form = "str" \/ repo.repo_url # <<>>

\* AptPattern.parse_obj succeeds
ValidApt(section) == \A i \in 1..Len(section.repos) : ValidRepo(section.repos[i])

----------------------------------------------------------------------------
(* Inputs *)

RECURSIVE SeqsUpTo(_, _)
\* the sequences over S of length at most n
SeqsUpTo(S, n) ==
    IF n = 0 THEN {<<>>}
    ELSE LET shorter == SeqsUpTo(S, n - 1)
         IN  shorter \cup { Append(q, x) : q \in shorter, x \in S }

UrlA  == <<"http://a">>
\* a different repository whose URL has UrlA as a prefix
UrlAB == <<"http://a", "/b">>
UrlC  == <<"http://c">>

RepoUrls == {UrlA, UrlAB, UrlC}
\* type_ is any text: the two types apt knows, and a text that one of them ends with
RepoTypes == {<<"deb">>, <<"deb-", "src">>, <<"src">>}
Branches == {<<"main">>, <<"contrib">>}
KeyHosts == {"a"}
KeyringA == gpg_key_path_of("a")
KeyPaths == {<<>>, KeyringA}
ListNames == {"envira.list"}

\* a row without its newline
LineOf(row) == SubSeq(row, 1, Len(row) - 1)

\* the lines a source-list file may hold before the run
InitLines ==
    { LineOf(repo_row(u, <<"deb">>, <<"main">>, <<>>)) : u \in RepoUrls }
    \cup { LineOf(repo_row(UrlA, <<"deb">>, <<"contrib">>, <<>>)),
           LineOf(repo_row(UrlA, <<"deb-", "src">>, <<"main">>, KeyringA)) }

\* a source-list file before the run: absent, or some lines, the last one with
\* or without its newline
InitFiles ==
    {NoFile}
    \cup { File(JoinLines(ls)) : ls \in SeqsUpTo(InitLines, MaxLines) }
    \cup { File(LineOf(JoinLines(ls))) : ls \in SeqsUpTo(InitLines, MaxLines) \ {<<>>} }

\* the filesystem before the run: the environment folder /env with the file a
\* and possibly a link l that leaves it, the directory /home with a file s and
\* the destination d in each of its forms
BaseFs ==
    [at \in FsPaths |->
        IF Len(at) < 2 THEN DirNode
        ELSE IF at = <<"env", "a">> THEN FileNode("A")
        ELSE IF at = <<"home", "s">> THEN FileNode("S")
        ELSE NoNode]

DestForms ==
    { NoNode, FileNode("D"),
      LinkNode(<<"env", "a">>),      \* a link to the source a
      LinkNode(<<"home", "s">>),     \* a link to another file
      LinkNode(<<"home", "k">>) }    \* a dangling link

InitFss ==
    { [BaseFs EXCEPT ![<<"env", "l">>] = l, ![<<"home", "d">>] = d] :
        l \in {NoNode, LinkNode(<<"home", "s">>)}, d \in DestForms }

CopySources ==
    { Path(FALSE, <<"a">>), Path(FALSE, <<"l">>), Path(FALSE, <<"m">>),
      Path(FALSE, <<"..", "home", "s">>),
      Path(TRUE, <<"home", "s">>), Path(TRUE, <<"env", "a">>) }

CopyDests ==
    { Path(TRUE, <<"home", "d">>), Path(FALSE, <<"d">>),
      Path(TRUE, <<"home">>), Path(TRUE, <<"env", "a">>) }

CopyPatterns ==
    { CopyPattern(s, d, l) : s \in CopySources, d \in CopyDests, l \in BOOLEAN }

----------------------------------------------------------------------------
(* The state outside a run of the program *)

NoDoc == [apt |-> <<>>, env |-> <<>>]
\* how the program is started: by a user through sudo, by root directly,
\* by a user without sudo
SudoInfo == _get_exec_info(<<InvokingUid>>, RootUid, RootUid)
ExecInfos ==
    { SudoInfo,
      _get_exec_info(<<>>, RootUid, RootUid),
      _get_exec_info(<<>>, InvokingUid, InvokingUid) }

NoCall == [op |-> "none"]
At(at, i) == [at |-> at, i |-> i]

Idle ==
    /\ conf = NoDoc
    /\ force = FALSE
    /\ keyrings = {}
    /\ res = OkResult
    /\ call = NoCall
    /\ trace = <<>>
    /\ exitCode = <<>>
    /\ runs = <<>>

----------------------------------------------------------------------------
(* SpecRepo: repository additions, one after another, to a source-list file *)

\* copy entries applied in a row to one filesystem
MaxCopies == 2

InitRepo ==
    /\ Idle
    /\ exec_info = SudoInfo
    /\ pc = At("add_repo", 0)
    /\ srcfiles \in [ListNames -> InitFiles]
    /\ fs = BaseFs

AddRepo(repo_url, type_, branch, gpg_key_path, source_list, force_) ==
    LET r == _apt_add_repo(srcfiles[source_list], repo_url, type_, branch,
                           gpg_key_path, force_)
    IN  /\ pc.at = "add_repo"
        /\ pc.i < MaxAdds
        /\ pc' = At("add_repo", pc.i + 1)
        /\ srcfiles' = [srcfiles EXCEPT ![source_list] = r.file]
        /\ res' = r.res
        /\ call' = [op |-> "add_repo", repo_url |-> repo_url, type_ |-> type_,
                    branch |-> branch, gpg_key_path |-> gpg_key_path,
                    source_list |-> source_list, force |-> force_,
                    before |-> srcfiles[source_list],
                    fresh |-> IF pc.i = 0 THEN ~srcfiles[source_list].exists
                              ELSE call.fresh]
        /\ UNCHANGED <<conf, force, keyrings, fs, trace, exitCode, runs, exec_info>>

NextRepo ==
    \E u \in RepoUrls, t \in RepoTypes, b \in Branches, k \in KeyPaths,
       l \in ListNames, f \in BOOLEAN : AddRepo(u, t, b, k, l, f)

SpecRepo == InitRepo /\ [][NextRepo]_vars

----------------------------------------------------------------------------
(* SpecCopy: copy entries, one after another, applied to a filesystem *)

InitCopy ==
    /\ Idle
    /\ exec_info = SudoInfo
    /\ pc = At("copy", 0)
    /\ srcfiles = [l \in ListNames |-> NoFile]
    /\ fs \in InitFss

ApplyCopy(section, force_) ==
    LET o == _apply_copy(fs, FolderPath, section, force_)
    IN  /\ pc.at = "copy"
        /\ pc.i < MaxCopies
        /\ pc' = At("copy", pc.i + 1)
        /\ fs' = o.fs
        /\ res' = o.res
        /\ call' = [op |-> "copy", section |-> section, force |-> force_,
                    before |-> fs, raised |-> o.raised]
        /\ UNCHANGED <<conf, force, srcfiles, keyrings, trace, exitCode, runs, exec_info>>

NextCopy == \E c \in CopyPatterns, f \in BOOLEAN : ApplyCopy(c, f)

SpecCopy == InitCopy /\ [][NextCopy]_vars

----------------------------------------------------------------------------
(* SpecExec: exec entries, one after another *)

MaxExecs == 2

\* the script of an entry: none, relative, inside the environment folder,
\* outside of it by "..", outside of it, a link inside that points outside
ExecScripts ==
    { <<>>,
      <<Path(FALSE, <<"a">>)>>,
      <<Path(TRUE, <<"env", "a">>)>>,
      <<Path(TRUE, <<"env", "..", "home", "s">>)>>,
      <<Path(TRUE, <<"home", "s">>)>>,
      <<Path(TRUE, <<"env", "l">>)>> }

\* the entries that pass validation
ExecPatterns ==
    { e \in { ExecPattern(c, sc, sh, r) :
                c \in {<<>>, <<"echo">>}, sc \in ExecScripts,
                sh \in {"sh", "zsh"}, r \in BOOLEAN } : ValidExec(e) }

InitExec ==
    /\ Idle
    /\ exec_info \in { info \in ExecInfos : info.euid = RootUid }
    /\ pc = At("exec", 0)
    /\ srcfiles = [l \in ListNames |-> NoFile]
    /\ fs = [BaseFs EXCEPT ![<<"env", "l">>] = LinkNode(<<"home", "s">>)]

ApplyExec(section, proc) ==
    LET x == _apply_exec(FolderPath, section, proc, exec_info)
    IN  /\ pc.at = "exec"
        /\ pc.i < MaxExecs
        /\ pc' = At("exec", pc.i + 1)
        /\ res' = x.res
        /\ call' = [op |-> "exec", section |-> section, started |-> x.started]
        /\ UNCHANGED <<conf, force, srcfiles, keyrings, fs, trace, exitCode, runs, exec_info>>

NextExec == \E e \in ExecPatterns, proc \in ProcOutcomes : ApplyExec(e, proc)

SpecExec == InitExec /\ [][NextExec]_vars

----------------------------------------------------------------------------
(* SpecMode: the mode of a directory-tree entry is validated *)

\* the modes tried: texts of these characters, up to this length
ModeChars == {"0", "5", "7", "8", "a"}
MaxModeInput == 5
Modes == SeqsUpTo(ModeChars, MaxModeInput)

InitMode ==
    /\ Idle
    /\ exec_info = SudoInfo
    /\ pc = At("mode", 0)
    /\ srcfiles = [l \in ListNames |-> NoFile]
    /\ fs = BaseFs

ValidateMode(v) ==
    LET r == validate_privileges(v)
    IN  /\ pc = At("mode", 0)
        /\ pc' = At("mode", 1)
        /\ res' = IF r.raised THEN ErrResult("ValueError") ELSE Result("", NoCode, r.v)
        /\ call' = [op |-> "validate_privileges", v |-> v]
        /\ UNCHANGED <<conf, force, srcfiles, keyrings, fs, trace, exitCode, runs, exec_info>>

NextMode == \E v \in Modes : ValidateMode(v)

SpecMode == InitMode /\ [][NextMode]_vars

----------------------------------------------------------------------------
(* SpecTree: directory trees, one after another *)

MaxTrees == 2

\* an EnvDirTreePattern with the root /home
DirTree(tree) == [root |-> Path(TRUE, <<"home">>), tree |-> tree]

\* the modes written in the document
TreeModes ==
    { <<"7", "5", "5">>, <<"7", "0", "0">>, <<"7", "7", "7">>, <<"7">>,
      <<"7", "a", "5">> }

\* the trees written in the document: one directory (new, or the regular file
\* /home/s), a directory with a nested one, two directories side by side
TreeInputs ==
    { <<Subtree(n, m, <<>>)>> : n \in {"k", "m", "s"}, m \in TreeModes }
    \cup { <<Subtree("k", <<"7", "5", "5">>, <<Subtree("m", m, <<>>)>>)>> :
             m \in TreeModes }
    \cup { <<Subtree("k", <<"7", "0", "0">>, <<>>),
             Subtree("m", <<"7", "7", "7">>, <<>>)>> }

\* the sections that pass validation, as parse_obj builds them
TreePatterns ==
    { DirTree(ParsedTrees(t)) : t \in { u \in TreeInputs : ValidTrees(u) } }

\* /home/k before the first tree: missing, a directory of mode 0o700, a link
\* to the directory /env, a link to the missing /home/d
TreeFss ==
    { [BaseFs EXCEPT ![<<"home", "k">>] = n] :
        n \in { NoNode, Dir(Octal(7, 0, 0)), LinkNode(<<"env">>),
                LinkNode(<<"home", "d">>) } }

InitTree ==
    /\ Idle
    /\ exec_info = SudoInfo
    /\ pc = At("dirtree", 0)
    /\ srcfiles = [l \in ListNames |-> NoFile]
    /\ fs \in TreeFss

ApplyDirtree(section, umask) ==
    LET o == _apply_dirtree(fs, section, umask)
    IN  /\ pc.at = "dirtree"
        /\ pc.i < MaxTrees
        /\ pc' = At("dirtree", pc.i + 1)
        /\ fs' = o.fs
        /\ res' = o.res
        /\ call' = [op |-> "dirtree", section |-> section, before |-> fs,
                    umask |-> umask]
        /\ UNCHANGED <<conf, force, srcfiles, keyrings, trace, exitCode, runs, exec_info>>

NextTree == \E section \in TreePatterns, umask \in Umasks : ApplyDirtree(section, umask)

SpecTree == InitTree /\ [][NextTree]_vars

----------------------------------------------------------------------------
(* The configuration document *)

\* list entries (repositories, packages, copy and exec entries) of a document
MaxItems == 2

\* an entry of apt.repos: a plain string, or an AptRepoPattern
\* (repo_url <<>>: the key is missing; key_url NoUrl: no key_url)
StrRepo(u) ==
    [form |-> "str", repo_url |-> u, key_url |-> NoUrl, type_ |-> <<"deb">>,
     branch |-> <<"main">>, source_list |-> "envira.list"]
ObjRepo(u, key_url, branch) ==
    [form |-> "obj", repo_url |-> u, key_url |-> key_url, type_ |-> <<"deb">>,
     branch |-> branch, source_list |-> "envira.list"]

KeyUrl == Url("https", "a", "/key.asc")
BadKeyUrl == Url("", "", "key.asc")

RepoItems ==
    { StrRepo(UrlA),
      StrRepo(UrlAB),
      ObjRepo(UrlA, NoUrl, <<"contrib">>),
      ObjRepo(UrlC, KeyUrl, <<"main">>),
      ObjRepo(UrlC, BadKeyUrl, <<"main">>),
      ObjRepo(<<>>, NoUrl, <<"main">>) }

\* an entry of apt.install: a plain string, or an AptInstallPattern
InstallItems ==
    { [form |-> "str", package |-> "curl"], [form |-> "str", package |-> "git"],
      [form |-> "obj", package |-> "curl"] }

CopyItems ==
    { CopyPattern(Path(FALSE, <<"a">>), Path(TRUE, <<"home", "d">>), FALSE),
      CopyPattern(Path(FALSE, <<"a">>), Path(TRUE, <<"home", "d">>), TRUE),
      CopyPattern(Path(FALSE, <<"m">>), Path(FALSE, <<"d">>), FALSE),
      CopyPattern(Path(FALSE, <<"..", "home", "s">>), Path(FALSE, <<"d">>), FALSE) }

\* env.dirtree: <<>> when the key is missing, else <<an EnvDirTreePattern>>
DirTrees ==
    { <<>>,
      <<DirTree(<<Subtree("k", <<"7", "5", "5">>,
                          <<Subtree("m", <<"7", "0", "0">>, <<>>)>>)>>)>>,
      <<DirTree(<<Subtree("s", <<"7", "5", "5">>,
                          <<Subtree("m", <<"7", "5", "5">>, <<>>)>>)>>)>> }

ExecItems ==
    { ExecPattern(c, sc, "sh", FALSE) :
        c \in {<<>>, <<"echo">>}, sc \in {<<>>, <<Path(TRUE, <<"env", "a">>)>>} }
    \cup { ExecPattern(<<"echo">>, <<Path(TRUE, <<"home", "s">>)>>, "sh", FALSE),
           ExecPattern(<<"echo">>, <<>>, "zsh", FALSE) }

AptSection(update, upgrade, repos, install) ==
    [present |-> TRUE, update |-> update, upgrade |-> upgrade, repos |-> repos,
     install |-> install]
NoApt == [AptSection(TRUE, FALSE, <<>>, <<>>) EXCEPT !.present = FALSE]

EnvSection(copy_, dirtree, exec_) ==
    [present |-> TRUE, copy_ |-> copy_, dirtree |-> dirtree, exec_ |-> exec_]
NoEnv == [EnvSection(<<>>, <<>>, <<>>) EXCEPT !.present = FALSE]

\* the documents with at most MaxItems list entries
Docs ==
    UNION { { [apt |-> a, env |-> e] :
                a \in {NoApt} \cup
                      { AptSection(ud, ug, rs, is) :
                          ud \in BOOLEAN, ug \in BOOLEAN,
                          rs \in [1..n[1] -> RepoItems], is \in [1..n[2] -> InstallItems] },
                e \in {NoEnv} \cup
                      { EnvSection(cs, dt, es) :
                          cs \in [1..n[3] -> CopyItems], dt \in DirTrees,
                          es \in [1..n[4] -> ExecItems] } } :
            n \in { m \in [1..4 -> 0..MaxItems] : m[1] + m[2] + m[3] + m[4] <= MaxItems } }

----------------------------------------------------------------------------
(* Configurator: main, load, _prepare_providers *)

AptProvider == [section_key |-> "apt", priority |-> 1]
EnvProvider == [section_key |-> "env", priority |-> 2]

\* providers/__init__.py
get_providers == <<AptProvider, EnvProvider>>

RECURSIVE Insert(_, _)
\* q, sorted by priority, with x put after the elements that are not greater
Insert(x, q) ==
    IF q = <<>> THEN <<x>>
    ELSE IF Head(q).priority <= x.priority THEN <<Head(q)>> \o Insert(x, Tail(q))
    ELSE <<x>> \o q

RECURSIVE sorted(_)
\* sorted(q, key=lambda x: x.priority), which is stable
sorted(q) == IF q = <<>> THEN <<>> ELSE Insert(q[Len(q)], sorted(SubSeq(q, 1, Len(q) - 1)))

\* the order of load if the sort were descending
providers_descending ==
    [k \in 1..Len(get_providers) |->
        sorted(get_providers)[Len(get_providers) + 1 - k].section_key]

\* Configurator._prepare_providers: the section keys, in the order load visits them
providers == [k \in 1..Len(get_providers) |-> sorted(get_providers)[k].section_key]

IndexOf(section) == CHOOSE k \in 1..Len(providers) : providers[k] = section

\* an entry of the trace. An operation (OpEvents) carries ok, whether it did
\* what it was to do: a result without error, a command that exited with 0.
Ev(ev, who, i, ok) == [ev |-> ev, who |-> who, i |-> i, ok |-> ok]

\* the actions a provider performs on the machine
OpEvents ==
    {"download_key", "add_repo", "update", "upgrade", "install", "query",
     "copy", "dirtree", "exec"}

\* a diagnostic printed: provider_cmd_error, or the print of line 54
Error(who, i) == Ev("error", who, i, TRUE)

OpCall(op, i) == [op |-> op, i |-> i]

\* an uncaught exception: the interpreter prints the traceback and exits with 1
Raise ==
    /\ pc' = At("exit", 0)
    /\ exitCode' = <<1>>

Init ==
    /\ pc = At("main", 0)
    /\ conf \in Docs
    /\ force \in BOOLEAN
    /\ srcfiles = [l \in ListNames |-> NoFile]
    /\ keyrings = {[host |-> "a", data |-> "old"]}
    /\ fs = BaseFs
    /\ res = OkResult
    /\ call = NoCall
    /\ trace = <<>>
    /\ exitCode = <<>>
    /\ runs = <<>>
    /\ exec_info \in ExecInfos

\* main, lines 73-115: the fatal conditions, else the configurator is loaded
Main(os, path_ok, prepared) ==
    /\ pc.at = "main"
    /\ IF exec_info.euid # RootUid \/ os # "linux" \/ ~path_ok \/ ~prepared
       THEN pc' = At("exit", 0) /\ exitCode' = <<1>> /\ trace' = trace
       ELSE /\ pc' = At("section", 1)
            /\ exitCode' = exitCode
            /\ trace' = Append(trace, Ev("load", "main", 0, TRUE))
    /\ UNCHANGED <<conf, force, srcfiles, keyrings, fs, res, call, runs, exec_info>>

\* where AptProvider.apply goes after the repositories, the update, the upgrade
AptAfterUpgrade(section) ==
    IF section.install # <<>>
    THEN IF section.install[1].form = "str" THEN At("apt_install", 1)
         ELSE At("apt_notimpl", 0)
    ELSE At("apt_return", 0)
AptAfterUpdate(section) ==
    IF section.upgrade THEN At("apt_upgrade", 0) ELSE AptAfterUpgrade(section)
AptAfterRepos(section) ==
    IF section.update THEN At("apt_update", 0) ELSE AptAfterUpdate(section)
AptStart(section) ==
    IF section.repos # <<>> THEN At("apt_repos", 1) ELSE AptAfterRepos(section)

\* where EnvProvider.apply goes after the copy entries, the directory tree
EnvAfterDirtree(section) ==
    IF section.exec_ # <<>> THEN At("env_exec", 1) ELSE At("env_return", 0)

\* lines 97-99 if the return were missing
EnvAfterDirtreeError_continues(section) == EnvAfterDirtree(section)

\* lines 97-99: the directory tree failed, apply returns 1
EnvAfterDirtreeError(section) == At("env_return", 1)

\* line 107 if only err were tested
ExecFailed_err_only(r) == r.err # ""

\* line 107: the exec entry failed
ExecFailed(r) == r.err # "" \/ r.exit_code # <<0>>
EnvAfterCopy(section) ==
    IF section.dirtree # <<>> THEN At("env_dirtree", 0) ELSE EnvAfterDirtree(section)
EnvStart(section) ==
    IF section.copy_ # <<>> THEN At("env_copy", 1) ELSE EnvAfterCopy(section)

ValidSection(section_key) ==
    IF section_key = "apt" THEN ValidApt(conf.apt) ELSE ValidEnv(conf.env)

StartOf(section_key) ==
    IF section_key = "apt" THEN AptStart(conf.apt) ELSE EnvStart(conf.env)

\* load, lines 26-30: the next section key; a key the document has makes the
\* provider (the section is validated, pydantic raising when it is invalid) and
\* calls its apply
LoadSection ==
    /\ pc.at = "section"
    /\ pc.i <= Len(providers)
    /\ LET section == providers[pc.i]
       IN  IF ~conf[section].present
           THEN pc' = At("section", pc.i + 1) /\ UNCHANGED <<trace, exitCode>>
           ELSE IF ~ValidSection(section)
           THEN /\ Raise
                /\ trace' = trace \o <<Ev("construct", section, 0, TRUE),
                                        Ev("invalid", section, 0, TRUE)>>
           ELSE /\ pc' = StartOf(section)
                /\ trace' = trace \o <<Ev("construct", section, 0, TRUE),
                                        Ev("apply", section, 0, TRUE)>>
                /\ UNCHANGED exitCode
    /\ UNCHANGED <<conf, force, srcfiles, keyrings, fs, res, call, runs, exec_info>>

\* load, line 30-31 and the end of the loop; main, line 117
LoadReturn ==
    /\ pc.at = "section"
    /\ pc.i > Len(providers)
    /\ pc' = At("exit", 0)
    /\ exitCode' = <<0>>
    /\ UNCHANGED <<conf, force, srcfiles, keyrings, fs, res, call, trace, runs, exec_info>>

\* load, lines 30-31: what apply returned decides whether the loop goes on
ApplyReturned(section, value) ==
    IF value # 0
    THEN pc' = At("exit", 0) /\ exitCode' = <<0>>
    ELSE pc' = At("section", IndexOf(section) + 1) /\ exitCode' = exitCode

----------------------------------------------------------------------------
(* AptProvider.apply *)

RepoCall(repo_url, type_, branch, gpg_key_path, source_list, force_) ==
    [op |-> "add_repo", i |-> pc.i, repo_url |-> repo_url, type_ |-> type_, branch |-> branch,
     gpg_key_path |-> gpg_key_path, source_list |-> source_list, force |-> force_,
     before |-> srcfiles[source_list], fresh |-> FALSE]

AptNextRepo(i) ==
    IF i < Len(conf.apt.repos) THEN At("apt_repos", i + 1) ELSE AptAfterRepos(conf.apt)

\* lines 48-49: a plain-string repository; the result of _apt_add_repo is dropped
AptAddStr ==
    /\ pc.at = "apt_repos"
    /\ conf.apt.repos[pc.i].form = "str"
    /\ LET repo == conf.apt.repos[pc.i]
           r == _apt_add_repo(srcfiles["envira.list"], repo.repo_url, <<"deb">>,
                              <<"main">>, <<>>, force)
       IN  /\ srcfiles' = [srcfiles EXCEPT !["envira.list"] = r.file]
           /\ res' = r.res
           /\ call' = RepoCall(repo.repo_url, <<"deb">>, <<"main">>, <<>>,
                               "envira.list", force)
           /\ trace' = Append(trace, Ev("add_repo", "apt", pc.i, r.res.err = ""))
           /\ pc' = AptNextRepo(pc.i)
    /\ UNCHANGED <<conf, force, keyrings, fs, exitCode, runs, exec_info>>

\* lines 52-62: the signing key of a structured repository
AptKey(fetch, gpg) ==
    /\ pc.at = "apt_repos"
    /\ conf.apt.repos[pc.i].form = "obj"
    /\ conf.apt.repos[pc.i].key_url # NoUrl
    /\ LET repo == conf.apt.repos[pc.i]
           d == _download_key(keyrings, repo.key_url, fetch, gpg)
           ran == Ev("download_key", "apt", pc.i, fetch = "bytes" /\ gpg.returncode = 0)
       IN  IF ~is_url(repo.key_url)
           THEN /\ trace' = trace \o <<Ev("key_url", "apt", pc.i, FALSE), Error("apt", pc.i)>>
                /\ pc' = At("apt_return", 0)
                /\ UNCHANGED <<keyrings, res, call, exitCode>>
           ELSE /\ keyrings' = d.rings
                /\ res' = d.res
                /\ call' = [op |-> "download_key", i |-> pc.i, before |-> keyrings,
                            fetch |-> fetch, files |-> srcfiles]
                /\ IF d.raised # ""
                   THEN /\ Raise
                        /\ trace' = trace \o <<ran, Ev("raised", "apt", pc.i, TRUE)>>
                   ELSE IF d.res.err # ""
                   THEN /\ trace' = trace \o <<ran, Error("apt", pc.i)>>
                        /\ pc' = At("apt_return", 0)
                        /\ UNCHANGED exitCode
                   ELSE /\ trace' = Append(trace, ran)
                        /\ pc' = At("apt_add", pc.i)
                        /\ UNCHANGED exitCode
    /\ UNCHANGED <<conf, force, srcfiles, fs, runs, exec_info>>

\* lines 64-75: a structured repository, with the keyring of its key if it has one
AptAddObj ==
    /\ \/ pc.at = "apt_add"
       \/ /\ pc.at = "apt_repos"
          /\ conf.apt.repos[pc.i].form = "obj"
          /\ conf.apt.repos[pc.i].key_url = NoUrl
    /\ LET repo == conf.apt.repos[pc.i]
           key_path == IF pc.at = "apt_add" THEN res.data ELSE <<>>
           r == _apt_add_repo(srcfiles[repo.source_list], repo.repo_url, repo.type_,
                              repo.branch, key_path, force)
           ran == Ev("add_repo", "apt", pc.i, r.res.err = "")
       IN  /\ srcfiles' = [srcfiles EXCEPT ![repo.source_list] = r.file]
           /\ res' = r.res
           /\ call' = RepoCall(repo.repo_url, repo.type_, repo.branch, key_path,
                               repo.source_list, force)
           /\ IF r.res.err # ""
              THEN /\ trace' = trace \o <<ran, Error("apt", pc.i)>>
                   /\ pc' = At("apt_return", 0)
              ELSE /\ trace' = Append(trace, ran)
                   /\ pc' = AptNextRepo(pc.i)
    /\ UNCHANGED <<conf, force, keyrings, fs, exitCode, runs, exec_info>>

\* lines 79-85
AptUpdate(proc) ==
    /\ pc.at = "apt_update"
    /\ res' = _apt_update(proc)
    /\ call' = OpCall("update", 0)
    /\ IF res'.err # ""
       THEN /\ trace' = trace \o <<Ev("update", "apt", 0, proc.returncode = 0),
                                    Error("apt", 0)>>
            /\ pc' = At("apt_return", 0)
       ELSE /\ trace' = Append(trace, Ev("update", "apt", 0, proc.returncode = 0))
            /\ pc' = AptAfterUpdate(conf.apt)
    /\ UNCHANGED <<conf, force, srcfiles, keyrings, fs, exitCode, runs, exec_info>>

\* lines 87-93
AptUpgrade(proc) ==
    /\ pc.at = "apt_upgrade"
    /\ res' = _apt_upgrade(proc)
    /\ call' = OpCall("upgrade", 0)
    /\ IF res'.err # ""
       THEN /\ trace' = trace \o <<Ev("upgrade", "apt", 0, proc.returncode = 0),
                                    Error("apt", 0)>>
            /\ pc' = At("apt_return", 0)
       ELSE /\ trace' = Append(trace, Ev("upgrade", "apt", 0, proc.returncode = 0))
            /\ pc' = AptAfterUpgrade(conf.apt)
    /\ UNCHANGED <<conf, force, srcfiles, keyrings, fs, exitCode, runs, exec_info>>

\* lines 97-103
AptInstall(inst, policy) ==
    /\ pc.at = "apt_install"
    /\ LET r == _apt_install(inst, policy)
           ran == <<Ev("install", "apt", pc.i, inst.returncode = 0)>>
                  \o (IF r.ran THEN <<Ev("query", "apt", pc.i, policy.returncode = 0)>>
                      ELSE <<>>)
       IN  /\ res' = r.res
           /\ call' = OpCall("install", pc.i)
           /\ IF r.res.err # ""
              THEN /\ trace' = trace \o ran \o <<Error("apt", pc.i)>>
                   /\ pc' = At("apt_return", 0)
              ELSE /\ trace' = trace \o ran
                   /\ pc' = IF pc.i < Len(conf.apt.install)
                            THEN At("apt_install", pc.i + 1) ELSE At("apt_return", 0)
    /\ UNCHANGED <<conf, force, srcfiles, keyrings, fs, exitCode, runs, exec_info>>

\* lines 105-106: structured install entries
AptNotImplemented ==
    /\ pc.at = "apt_notimpl"
    /\ Raise
    /\ trace' = Append(trace, Ev("raised", "apt", 0, TRUE))
    /\ UNCHANGED <<conf, force, srcfiles, keyrings, fs, res, call, runs, exec_info>>

\* every return of AptProvider.apply returns None
AptReturn ==
    /\ pc.at = "apt_return"
    /\ ApplyReturned("apt", 0)
    /\ trace' = Append(trace, Ev("return", "apt", 0, TRUE))
    /\ UNCHANGED <<conf, force, srcfiles, keyrings, fs, res, call, runs, exec_info>>

----------------------------------------------------------------------------
(* EnvProvider.apply *)

\* lines 80-90: a copy entry; an error is printed and the loop goes on
EnvCopy ==
    /\ pc.at = "env_copy"
    /\ LET section == conf.env.copy_[pc.i]
           o == _apply_copy(fs, FolderPath, section, force)
           ran == Ev("copy", "env", pc.i, o.res.err = "" /\ o.raised = "")
       IN  /\ fs' = o.fs
           /\ res' = o.res
           /\ call' = [op |-> "copy", section |-> section, force |-> force,
                       before |-> fs, raised |-> o.raised]
           /\ IF o.raised # ""
              THEN /\ Raise
                   /\ trace' = trace \o <<ran, Ev("raised", "env", pc.i, TRUE)>>
              ELSE /\ trace' = trace \o <<ran>>
                                     \o (IF o.res.err # "" THEN <<Error("env", pc.i)>>
                                         ELSE <<>>)
                   /\ pc' = IF pc.i < Len(conf.env.copy_) THEN At("env_copy", pc.i + 1)
                            ELSE EnvAfterCopy(conf.env)
                   /\ UNCHANGED exitCode
    /\ UNCHANGED <<conf, force, srcfiles, keyrings, runs, exec_info>>

\* lines 92-101
EnvDirtree(umask) ==
    /\ pc.at = "env_dirtree"
    /\ LET o == _apply_dirtree(fs, conf.env.dirtree[1], umask)
           ran == Ev("dirtree", "env", 0, o.res.err = "")
       IN  /\ fs' = o.fs
           /\ res' = o.res
           /\ call' = [op |-> "dirtree", section |-> conf.env.dirtree[1], before |-> fs]
           /\ IF o.res.err # ""
              THEN /\ trace' = trace \o <<ran, Error("env", 0)>>
                   /\ pc' = EnvAfterDirtreeError(conf.env)
              ELSE /\ trace' = Append(trace, ran)
                   /\ pc' = EnvAfterDirtree(conf.env)
    /\ UNCHANGED <<conf, force, srcfiles, keyrings, exitCode, runs, exec_info>>

\* lines 103-111
EnvExec(proc) ==
    /\ pc.at = "env_exec"
    /\ LET section == conf.env.exec_[pc.i]
           x == _apply_exec(FolderPath, section, proc, exec_info)
           ran == IF x.started # <<>>
                  THEN Ev("exec", "env", pc.i, proc.returncode = 0 /\ proc.err = "")
                  ELSE Ev("exec_check", "env", pc.i, FALSE)
       IN  /\ res' = x.res
           /\ call' = [op |-> "exec", section |-> section, started |-> x.started]
           /\ IF ExecFailed(x.res)
              THEN /\ trace' = trace \o <<ran, Error("env", pc.i)>>
                   /\ pc' = At("env_return", 1)
              ELSE /\ trace' = Append(trace, ran)
                   /\ pc' = IF pc.i < Len(conf.env.exec_) THEN At("env_exec", pc.i + 1)
                            ELSE At("env_return", 0)
    /\ UNCHANGED <<conf, force, srcfiles, keyrings, fs, exitCode, runs, exec_info>>

\* EnvProvider.apply returns 1 (lines 99, 109) or None
EnvReturn ==
    /\ pc.at = "env_return"
    /\ ApplyReturned("env", pc.i)
    /\ trace' = Append(trace, Ev("return", "env", pc.i, TRUE))
    /\ UNCHANGED <<conf, force, srcfiles, keyrings, fs, res, call, runs, exec_info>>

----------------------------------------------------------------------------
(* Spec: one run of the program *)

Next ==
    \/ \E os \in {"linux", "darwin"}, path_ok \in BOOLEAN, prepared \in BOOLEAN :
          Main(os, path_ok, prepared)
    \/ LoadSection
    \/ LoadReturn
    \/ AptAddStr
    \/ \E fetch \in FetchOutcomes, gpg \in CmdOutcomes : AptKey(fetch, gpg)
    \/ AptAddObj
    \/ \E proc \in CmdOutcomes : AptUpdate(proc)
    \/ \E proc \in CmdOutcomes : AptUpgrade(proc)
    \/ \E inst \in CmdOutcomes, policy \in ProcOutcomes : AptInstall(inst, policy)
    \/ AptNotImplemented
    \/ AptReturn
    \/ EnvCopy
    \/ \E umask \in Umasks : EnvDirtree(umask)
    \/ \E proc \in ProcOutcomes : EnvExec(proc)
    \/ EnvReturn

Spec == Init /\ [][Next]_vars

----------------------------------------------------------------------------
(* SpecTwice: the program is run again, with the same document, after a run in
   which every operation did what it was to do *)

\* the operations of the trace that did not do what they were to do
Failures == { j \in 1..Len(trace) : ~trace[j].ok }

\* the failures, the diagnostics and the exceptions of the trace
Troubles ==
    Failures \cup { j \in 1..Len(trace) : trace[j].ev \in {"error", "raised", "invalid"} }

RunAgain ==
    /\ pc.at = "exit"
    /\ runs = <<>>
    /\ exitCode = <<0>>
    /\ Troubles = {}
    /\ runs' = <<[srcfiles |-> srcfiles, keyrings |-> keyrings, fs |-> fs, trace |-> trace]>>
    /\ pc' = At("main", 0)
    /\ trace' = <<>>
    /\ exitCode' = <<>>
    /\ res' = OkResult
    /\ call' = NoCall
    /\ UNCHANGED <<conf, force, srcfiles, keyrings, fs, exec_info>>

NextTwice == Next \/ RunAgain

SpecTwice == Init /\ [][NextTwice]_vars

----------------------------------------------------------------------------
(* Vocabulary of the claims *)

\* the lines of a source-list file
LinesOf(file) == IF file.exists THEN splitlines(file.data) ELSE <<>>

\* the lines that declare repository u, whatever their type, branch and keyring
RepoLines(u) ==
    { LineOf(repo_row(u, t, b, k)) : t \in RepoTypes, b \in Branches, k \in KeyPaths }

InSeq(x, q) == \E i \in 1..Len(q) : q[i] = x

RECURSIVE Without(_, _)
\* the elements of q that are not in S, in order
Without(q, S) ==
    IF q = <<>> THEN <<>>
    ELSE (IF Head(q) \in S THEN <<>> ELSE <<Head(q)>>) \o Without(Tail(q), S)

\* the row of the last repository addition
CallRow == repo_row(call.repo_url, call.type_, call.branch, call.gpg_key_path)

\* the last addition met a differing line of the same repository
DuplicateCase ==
    /\ call.op = "add_repo"
    /\ call.before.exists
    /\ ~InSeq(LineOf(CallRow), LinesOf(call.before))
    /\ \E i \in 1..Len(LinesOf(call.before)) :
           LinesOf(call.before)[i] \in RepoLines(call.repo_url)

\* the source of the last copy entry, as _apply_copy joins it
CallSource == JoinPath(FolderPath, call.section.source)
CallDest == absolute(call.section.dest)

\* strictly inside the environment folder
StrictlyInside(p) == FolderPath \in parents(p)

\* the entries of the trace
Idx == 1..Len(trace)

PriorityOf(section_key) ==
    IF section_key = AptProvider.section_key THEN AptProvider.priority
    ELSE EnvProvider.priority

\* entry k of the trace is a provider being constructed, applied or acting
ProviderEvent(k) ==
    /\ trace[k].who \in {"apt", "env"}
    /\ trace[k].ev \in OpEvents \cup {"construct", "apply"}

\* how often load has called apply of the provider of a section
Applied(section_key) ==
    Cardinality({ j \in Idx : trace[j].ev = "apply" /\ trace[j].who = section_key })

Loaded == \E j \in Idx : trace[j].ev = "load"

\* the run was ended by an exception
Aborted == \E j \in Idx : trace[j].ev \in {"invalid", "raised"}

\* the diagnostic of the last repository addition was printed
Reported ==
    \E j \in Idx :
        /\ trace[j].ev = "add_repo" /\ trace[j].i = call.i
        /\ j < Len(trace) /\ trace[j + 1] = Error("apt", call.i)

\* exactly one of cmd and script is supplied
ExactlyOne(entry) == (entry.cmd # <<>>) # (entry.script # <<>>)

----------------------------------------------------------------------------
(* Claims *)

\* C1 as claimed: once a provider has reported the failure of one of its
\* operations, no provider of later priority is constructed, is applied or acts.
C1_FailFast ==
    \A j \in Idx, k \in Idx :
        (j < k /\ trace[j].ev = "error" /\ ProviderEvent(k))
            => PriorityOf(trace[k].who) <= PriorityOf(trace[j].who)

\* C2 as claimed: the process exits with 0 only if no operation of a provider
\* failed.
C2_ExitCode == (exitCode = <<0>>) => (Failures = {})

\* C3 as claimed: when a section fails validation the run exits with 1 and no
\* provider has acted.
C3_ValidateFirst ==
    (\E j \in Idx : trace[j].ev = "invalid")
        => (exitCode = <<1>> /\ \A k \in Idx : trace[k].ev \notin OpEvents)

\* C4, the order: no operation of a provider follows one of a provider of
\* higher priority number, and a provider whose section is absent is never
\* constructed or applied.
C4_Order ==
    /\ \A j \in Idx, k \in Idx :
           (j < k /\ ProviderEvent(j) /\ ProviderEvent(k))
               => PriorityOf(trace[j].who) <= PriorityOf(trace[k].who)
    /\ \A k \in Idx : ProviderEvent(k) => conf[trace[k].who].present

C5_ResolvedSourceContained ==
    (call.op = "copy" /\ ~StrictlyInside(resolve(call.before, CallSource)))
        => (res.err = "outside" /\ call.raised = "" /\ fs = call.before)

\* C6 as claimed: an unforced addition that meets a differing line of the same
\* repository fails, the error is reported, and the file is left as it was.
C6_DuplicateReported ==
    (DuplicateCase /\ ~call.force)
        => /\ res.err = "duplicated"
           /\ Reported
           /\ srcfiles[call.source_list] = call.before

\* C7 as claimed: a forced addition that meets a differing line of the same
\* repository succeeds and leaves the lines of the other repositories, in
\* order, followed by the new line.
C7_ForceKeepsOtherRepos ==
    (DuplicateCase /\ call.force)
        => /\ res.err = ""
           /\ LinesOf(srcfiles[call.source_list])
                = Without(LinesOf(call.before), RepoLines(call.repo_url))
                  \o <<LineOf(CallRow)>>

\* the copy entries of the document are all links
LinksOnly == \A i \in 1..Len(conf.env.copy_) : conf.env.copy_[i].as_link

\* the operations the filesystem alone decides
Repeatable == {"add_repo", "copy", "dirtree"}

\* the operation a failure, a diagnostic or an exception of the trace is about
OpOf(j) ==
    IF trace[j].ev \in {"error", "raised"} THEN trace[j - 1].ev ELSE trace[j].ev

\* C8 as claimed: after a run in which everything succeeded, a second run of
\* the same document that reaches load, with no trouble in its key downloads
\* and commands, succeeds and leaves the source lists and the filesystem as the first did.
C8_Idempotent ==
    (/\ runs # <<>>
     /\ pc.at = "exit"
     /\ Loaded
     /\ LinksOnly
     /\ \A j \in Troubles : OpOf(j) \in Repeatable)
        => /\ Troubles = {}
           /\ exitCode = <<0>>
           /\ srcfiles = runs[1].srcfiles
           /\ fs = runs[1].fs

\* the last copy entry met a destination that exists, and force is off
UnforcedOnExisting ==
    call.op = "copy" /\ ~call.force /\ exists(call.before, CallDest)

\* the destination is a symbolic link that resolves to the source
LinkToSource ==
    /\ is_symlink(call.before, CallDest)
    /\ resolve(call.before, CallDest) = resolve(call.before, CallSource)

\* what the claim says of a copy entry that met an existing destination
Refusal ==
    /\ call.raised = ""
    /\ fs = call.before
    /\ ~call.section.as_link => res.err = "already_exists"
    /\ (call.section.as_link /\ ~LinkToSource) => res.err = "already_exists"

C10_ExactlyOne ==
    \A j \in Idx :
        (trace[j].ev = "construct" /\ trace[j].who = "env")
            => ((trace[j + 1].ev = "apply")
                  <=> \A i \in 1..Len(conf.env.exec_) : ExactlyOne(conf.env.exec_[i]))

\* the octal digits
OctalDigits == {"0", "1", "2", "3", "4", "5", "6", "7"}

\* a mode of one to four characters has been validated
ModeCase ==
    /\ call.op = "validate_privileges"
    /\ Len(call.v) >= 1 /\ Len(call.v) <= 4

\* the mode of three digits the claim gives an accepted mode
ThreeDigits(v) ==
    IF Len(v) = 4 THEN Tail(v)
    ELSE [i \in 1..3 |-> IF i <= 3 - Len(v) THEN "0" ELSE v[i - (3 - Len(v))]]

\* C11 as claimed: a mode of one to four characters is accepted exactly when
\* its characters are octal digits and, if it has four, the first is "0"; an
\* accepted mode becomes three digits, padded with "0" on the left or with
\* the leading "0" dropped.
C11_ModeValidation ==
    ModeCase
        => /\ (res.err = "")
                <=> /\ \A i \in 1..Len(call.v) : call.v[i] \in OctalDigits
                    /\ Len(call.v) = 4 => call.v[1] = "0"
           /\ (res.err = "") => res.data = ThreeDigits(call.v)

\* the steps of AptProvider.apply that add a repository
RepoSteps == {"key_url", "download_key", "add_repo"}

\* entry k of the trace is an operation of the apt provider
AptOp(k) == trace[k].who = "apt" /\ trace[k].ev \in OpEvents

\* the diagnostic of entry j of the trace was printed after it
ErrorFollows(j) == j < Len(trace) /\ trace[j + 1].ev = "error"

\* C12 as claimed: after a repository step that failed, the apt provider
\* performs no operation: no other repository, no update, upgrade or install.
C12_RepoFailureAborts ==
    \A j \in Idx, k \in Idx :
        (j < k /\ trace[j].who = "apt" /\ trace[j].ev \in RepoSteps /\ ~trace[j].ok)
            => ~AptOp(k)

\* C13 as claimed: the upgrade command runs only when upgrade is enabled, and
\* when it exits with a non-zero status the failure is reported and no package
\* is installed afterwards.
C13_UpgradeFailureAborts ==
    \A j \in Idx :
        trace[j].ev = "upgrade"
            => /\ conf.apt.upgrade
               /\ ~trace[j].ok
                     => /\ ErrorFollows(j)
                        /\ \A k \in Idx : k > j => trace[k].ev \notin {"install", "query"}

\* C14 as claimed: the update is treated as failed exactly when the command
\* exits with a non-zero status; after a failure there is no upgrade and no
\* install.
C14_UpdateFailureByStatus ==
    \A j \in Idx :
        trace[j].ev = "update"
            => /\ ErrorFollows(j) <=> ~trace[j].ok
               /\ ~trace[j].ok
                     => \A k \in Idx :
                            k > j => trace[k].ev \notin {"upgrade", "install", "query"}

\* C15 as claimed: packages are installed in the declared order, the version
\* of a package is queried only after its install command exited with 0, and
\* after a package whose install or query command failed no package is
\* installed.
C15_InstallFailureAborts ==
    /\ \A j \in Idx, k \in Idx :
           (j < k /\ trace[j].ev = "install" /\ trace[k].ev = "install")
               => trace[j].i < trace[k].i
    /\ \A j \in Idx :
           trace[j].ev = "query"
               => /\ j > 1
                  /\ trace[j - 1] = Ev("install", "apt", trace[j].i, TRUE)
    /\ \A j \in Idx, k \in Idx :
           (j < k /\ trace[j].ev \in {"install", "query"} /\ ~trace[j].ok)
               => trace[k].ev # "install"

\* a forced link met a destination that is a file or a symbolic link (a
\* dangling one included) and is no link to the source; the source passes the
\* tests of _apply_copy
ForcedLinkCase ==
    /\ call.op = "copy" /\ call.section.as_link /\ call.force
    /\ _path_relative(FolderPath, CallSource) /\ exists(call.before, CallSource)
    /\ LStat(call.before, CallDest).ok
    /\ Node(call.before, LStat(call.before, CallDest).at).kind \in {"file", "link"}
    /\ ~LinkToSource

\* C16 as claimed: a forced link whose destination is there and is no link to
\* the source succeeds, and the destination is then a symbolic link to the
\* source.
C16_ForcedLink ==
    ForcedLinkCase
        => /\ call.raised = "" /\ res.err = ""
           /\ is_symlink(fs, CallDest)
           /\ resolve(fs, CallDest) = resolve(fs, CallSource)

\* the last exec entry has a script
ScriptCase == call.op = "exec" /\ call.section.script # <<>>

\* the file the script names: the path joined to the environment folder, with
\* ".." and symbolic links eliminated
ScriptTarget == resolve(fs, JoinPath(FolderPath, call.section.script[1]))

\* C17 as claimed: the script of an exec entry is resolved against the
\* environment folder; if the resolved path is strictly inside the folder no
\* containment error is returned and the file a started process executes is
\* that file, otherwise the containment error is returned and no process is
\* started.
C17_ScriptContained ==
    ScriptCase
        => IF StrictlyInside(ScriptTarget)
           THEN /\ res.err # "outside"
                /\ call.started # <<>>
                      => resolve(fs, Path(TRUE, call.started[1].cmd)) = ScriptTarget
           ELSE res.err = "outside" /\ call.started = <<>>

\* EnvProvider.apply has returned a true value: it reports failure
EnvReportsFailure(k) ==
    (trace[k].ev = "return" /\ trace[k].who = "env") => trace[k].i = 1

\* C18 as claimed: after a copy entry whose result is not clean no later copy
\* entry is attempted, and apply reports failure.
C18_CopyFailureAborts ==
    \A j \in Idx, k \in Idx :
        (j < k /\ trace[j].ev = "copy" /\ ~trace[j].ok)
            => (trace[k].ev # "copy" /\ EnvReportsFailure(k))

\* what the trace holds of an exec entry: the process it started, or the test
\* (containment, shell) that refused it
ExecEvents == {"exec", "exec_check"}

\* the exec entries of the trace before entry j
ExecsBefore(j) == { k \in Idx : k < j /\ trace[k].ev \in ExecEvents }

\* C19: the exec entries are run in the declared order; an entry is treated
\* as failed exactly when its process exits non-zero or writes error output,
\* or when it is refused for its shell or its script; after a failed entry no
\* exec entry is started and apply reports failure.
C19_ExecFailureAborts ==
    /\ \A j \in Idx :
           trace[j].ev \in ExecEvents
               => /\ trace[j].i = Cardinality(ExecsBefore(j)) + 1
                  /\ ErrorFollows(j) <=> ~trace[j].ok
    /\ \A j \in Idx, k \in Idx :
           (j < k /\ trace[j].ev \in ExecEvents /\ ~trace[j].ok)
               => (trace[k].ev \notin ExecEvents /\ EnvReportsFailure(k))

\* the first of two exec entries failed and apply has returned
C19_Witness ==
    /\ pc.at = "exit"
    /\ Len(conf.env.exec_) = 2
    /\ \E j \in Idx : trace[j] = Ev("exec", "env", 1, FALSE)
    /\ trace[Len(trace)] = Ev("return", "env", 1, TRUE)

\* the part of EnvProvider.apply an entry of the trace belongs to
Phase(ev) == IF ev = "copy" THEN 1 ELSE IF ev = "dirtree" THEN 2 ELSE 3

EnvPhaseEvent(k) == trace[k].ev \in {"copy", "dirtree"} \cup ExecEvents

\* C20: within one apply every copy entry is processed before the directory
\* tree and the directory tree before any exec entry; when the directory tree
\* fails the failure is reported, no exec entry is started and apply reports
\* failure.
C20_EnvOrder ==
    /\ \A j \in Idx, k \in Idx :
           (j < k /\ EnvPhaseEvent(j) /\ EnvPhaseEvent(k))
               => Phase(trace[j].ev) <= Phase(trace[k].ev)
    /\ \A k \in Idx :
           (EnvPhaseEvent(k) /\ Phase(trace[k].ev) > 1)
               => \A i \in 1..Len(conf.env.copy_) :
                      \E j \in 1..(k - 1) : trace[j].ev = "copy" /\ trace[j].i = i
    /\ \A k \in Idx :
           (trace[k].ev \in ExecEvents /\ conf.env.dirtree # <<>>)
               => \E j \in 1..(k - 1) : trace[j].ev = "dirtree"
    /\ \A j \in Idx :
           (trace[j].ev = "dirtree" /\ ~trace[j].ok)
               => /\ ErrorFollows(j)
                  /\ \A k \in Idx :
                         k > j => (trace[k].ev \notin ExecEvents /\ EnvReportsFailure(k))

\* a copy entry, then a directory tree that failed, with an exec entry waiting
C20_Witness ==
    /\ pc.at = "exit"
    /\ conf.env.exec_ # <<>>
    /\ \E j \in Idx, k \in Idx :
           j < k /\ trace[j].ev = "copy" /\ trace[k] = Ev("dirtree", "env", 0, FALSE)
    /\ trace[Len(trace)] = Ev("return", "env", 1, TRUE)


RECURSIVE Declared(_, _)
\* the nodes a tree declares below cur_path: the path and the mode of each
Declared(trees, cur_path) ==
    UNION { LET at == JoinPath(cur_path, Path(FALSE, <<trees[i].name>>))
            IN  {[path |-> at, mode |-> trees[i].mode]}
                \cup Declared(trees[i].nested, at) : i \in 1..Len(trees) }

\* the nodes of the last directory-tree section
DeclaredNodes == Declared(call.section.tree, absolute(call.section.root))

\* the last operation was a directory-tree section that returned success
TreeSucceeded == call.op = "dirtree" /\ res.err = ""

\* a path that was missing before the section is now a directory of this mode
CreatedWith(d) ==
    ~exists(call.before, d.path)
        => /\ ~int_base8(d.mode).raised
           /\ Node(fs, Stat(fs, d.path).at).mode = int_base8(d.mode).n

\* what was there before the section is there still, mode and type
TreeFrame ==
    \A at \in DOMAIN call.before :
        call.before[at].kind # "none" => fs[at] = call.before[at]

\* C21: after a directory-tree section that returned success, every declared
\* node exists as a directory (so each parent is there for its children), a
\* directory that did not exist was created with its declared mode, and
\* whatever existed before keeps its mode and its type.
C21_TreePostcondition ==
    TreeSucceeded =>
        /\ \A d \in DeclaredNodes : isdir(fs, d.path) /\ CreatedWith(d)
        /\ TreeFrame


\* the last operation was an exec entry that started a process
ExecStarted == call.op = "exec" /\ call.started # <<>>

\* C22: a process started for an exec entry has the uid of the invoking user,
\* which is not root, unless the entry sets as_root; then, and only then, it
\* has the privilege of the program itself. Whatever entries came before, an
\* entry with as_root = false never runs as root.
C22_ExecPrivilege ==
    ExecStarted =>
        IF call.section.as_root
        THEN call.started[1].uid = exec_info.euid
        ELSE /\ call.started[1].uid = exec_info.uid
             /\ call.started[1].uid # RootUid


\* the last operation was a key download that failed: no answer, or a timeout
KeyDownloadFailed == call.op = "download_key" /\ call.fetch \in {"URLError", "timeout"}

\* the host of the key URL of the last key download
KeyHost == conf.apt.repos[call.i].key_url.netloc

\* C23: when the download of a signing key fails (transport failure or
\* timeout), the keyring file of the key URL's host that was there before the
\* attempt is still there with its content, and no source-list file changed.
C23_KeyFailureKeepsState ==
    KeyDownloadFailed =>
        /\ \A r \in call.before : r.host = KeyHost => r \in keyrings
        /\ srcfiles = call.files


\* the last operation was a repository addition to a file that was absent
\* before the first addition
FreshCase == call.op = "add_repo" /\ call.fresh

\* the lines of the file of the last repository addition
FileLines == LinesOf(srcfiles[call.source_list])

\* no two lines of the file are the same
NoTwinLines ==
    \A i, j \in 1..Len(FileLines) : FileLines[i] = FileLines[j] => i = j

\* no two lines of the file declare the same repository URL
OneLinePerUrl ==
    \A u \in RepoUrls : \A i, j \in 1..Len(FileLines) :
        (FileLines[i] \in RepoLines(u) /\ FileLines[j] \in RepoLines(u)) => i = j

\* C24: starting from an absent source-list file, after any sequence of
\* repository additions to it, successful or failed, the file never holds two
\* identical lines nor two lines for the same repository URL, and after every
\* successful addition the exact line of the repository just added is there.
C24_SourceListInvariant ==
    FreshCase =>
        /\ NoTwinLines
        /\ OneLinePerUrl
        /\ res.err = "" => InSeq(LineOf(CallRow), FileLines)

============================================================================
